---- MODULE Spec2Model ----
(***************************************************************************)
(* A model of tools/build.py, the Libertinus font build script:            *)
(*   - HintPen and OutlineCompiler.getCharStringForGlyph (charstrings),    *)
(*   - Font.generate and the stages it calls in order: _update_metadata,   *)
(*     _make_over_under_line, compile, feature compilation,                *)
(*     _post_process (GDEF mark classes, MATH table), _prune, save.        *)
(*                                                                         *)
(* Conventions.                                                            *)
(*   None is <<>> and a present value v is <<v>>.                          *)
(*   A glyph name is a pair <<stem, suffix>>: <<"uni0305", 0>> is the      *)
(*   glyph uni0305 and <<"uni0305", 500>> is the glyph uni0305.500.        *)
(*   Coordinates are fixed-point numbers: an integer c stands for the      *)
(*   float c / Scale, so that non-integer outlines are representable.      *)
(***************************************************************************)
EXTENDS Integers, Sequences, FiniteSets, TLC

VARIABLES
    \* ---- one call of OutlineCompiler.getCharStringForGlyph ----
    penpc,       \* position in getCharStringForGlyph: "new", "draw", "done", "failed"
    penGlyph,    \* the glyph being compiled: [name, width]
    private,     \* the CFF private dict: [defaultWidthX, nominalWidthX]
    pen,         \* the HintPen: [width, bez, done]
    open,        \* BasePen: a contour has been started and not yet closed or ended
    charString,  \* None, or the T2CharString returned: <<[program]>>
    \* ---- one run of Font.generate ----
    pc,          \* the statement of Font.generate to run next, "done" or "failed"
    version,     \* Font._version, as the fields of version.split(".")
    font,        \* Font._font: [glyphs, glyphOrder, features, lib, info]
    otf,         \* the compiled TTFont: [charStrings, classDefs, MATH, glyphs, features]
    output,      \* the file at the output path: None until otf.save(output)
    error,       \* the stage that raised, "" when none has
    log          \* the stages started so far, in order

vars == <<penpc, penGlyph, private, pen, open, charString,
          pc, version, font, otf, output, error, log>>

penVars == <<penpc, penGlyph, private, pen, open, charString>>
genVars == <<pc, version, font, otf, output, error, log>>

---------------------------------------------------------------------------
(* Bounds of the model *)

\* ordinary glyphs of a font
NGlyphs == 3
\* pen calls made by one path.draw(pen)
MaxOps == 6
\* largest bounding box extent drawn for a variant glyph, in 1/Scale units
MaxExtent == 9
\* resolution of the fixed-point coordinates
Scale == 4

---------------------------------------------------------------------------
(* Python values and arithmetic *)

None == <<>>
Some(v) == <<v>>

\* Python 3 round(n / d) for d > 0: to the nearest integer, ties to even
RoundDiv(n, d) ==
    LET q == n \div d
        r == n % d
    IN  IF 2 * r < d THEN q
        ELSE IF 2 * r > d THEN q + 1
        ELSE IF q % 2 = 0 THEN q ELSE q + 1

\* Python int(n / d) for d > 0: truncation toward zero
TruncDiv(n, d) == IF n >= 0 THEN n \div d ELSE -((-n) \div d)

\* x and y or z, where truthy(y) tells whether y is truthy
AndOr(x, y, ytruthy, z) == IF x /\ ytruthy THEN y ELSE z

Last(s) == s[Len(s)]

Range(s) == {s[i] : i \in DOMAIN s}

---------------------------------------------------------------------------
(* HintPen *)

NoName == <<"", 0>>

Instr(op, args) == [op |-> op, args |-> args, name |-> NoName]

\* HintPen.__init__
HintPen(width, name) ==
    [width |-> width,
     bez   |-> <<[op |-> "%", args |-> <<>>, name |-> name], Instr("sc", <<>>)>>,
     done  |-> FALSE]

\* HintPen._point: each coordinate rounded and printed with %d
Point(point) == [i \in DOMAIN point |-> RoundDiv(point[i], Scale)]

\* HintPen._moveTo
MoveToPen(p, pt) == [p EXCEPT !.bez = Append(@, Instr("mt", Point(pt)))]

\* HintPen._lineTo
LineToPen(p, pt) == [p EXCEPT !.bez = Append(@, Instr("dt", Point(pt)))]

\* HintPen._curveToOne
CurveToOnePen(p, pt1, pt2, pt3) ==
    [p EXCEPT !.bez = Append(@, Instr("ct", Point(pt1 \o pt2 \o pt3)))]

\* HintPen._closePath
ClosePathPen(p) == [p EXCEPT !.bez = Append(@, Instr("cp", <<>>))]

\* HintPen._endPath
EndPathPen(p) == [p EXCEPT !.bez = Append(@, Instr("ed", <<>>)), !.done = TRUE]

\* a T2 program token: an operand (a number) or an operator
Num(n) == [kind |-> "operand", op |-> "", val |-> n]
Op(o) == [kind |-> "operator", op |-> o, val |-> 0]

RECURSIVE NumSeq(_)
NumSeq(args) == IF args = <<>> THEN <<>> ELSE <<Num(Head(args))>> \o NumSeq(Tail(args))

RECURSIVE Relative(_, _)
\* absolute coordinates x1 y1 x2 y2 ... as deltas from the point cur
Relative(args, cur) ==
    IF Len(args) < 2 THEN <<>>
    ELSE <<args[1] - cur[1], args[2] - cur[2]>>
             \o Relative(SubSeq(args, 3, Len(args)), <<args[1], args[2]>>)

RECURSIVE BezToT2(_, _)
\* psautohint's convertBezToT2 on the path instructions: absolute bez points
\* become relative T2 operands followed by their operator
BezToT2(bez, cur) ==
    IF bez = <<>> THEN <<>>
    ELSE LET i == Head(bez)
             n == Len(i.args)
             next == IF n >= 2 THEN <<i.args[n - 1], i.args[n]>> ELSE cur
             toks == IF i.op = "mt" THEN NumSeq(Relative(i.args, cur)) \o <<Op("rmoveto")>>
                     ELSE IF i.op = "dt" THEN NumSeq(Relative(i.args, cur)) \o <<Op("rlineto")>>
                     ELSE IF i.op = "ct" THEN NumSeq(Relative(i.args, cur)) \o <<Op("rrcurveto")>>
                     ELSE IF i.op = "ed" THEN <<Op("endchar")>>
                     ELSE <<>>
         IN  toks \o BezToT2(Tail(bez), next)

\* convertBezToT2(hint_bez_glyph(info, bez)) when the hinting engine accepts
\* the glyph (info is empty, so the engine has no zones to add stems from)
convertBezToT2(bez) == BezToT2(bez, <<0, 0>>)

\* HintPen.getCharString, the pen it leaves behind: the end-of-path marker
\* is added when _done is not set
FinishPen(p) == IF ~p.done THEN EndPathPen(p) ELSE p

\* HintPen.getCharString, the charstring it returns when the engine accepts
getCharString(p) ==
    LET q == FinishPen(p)
        program == convertBezToT2(q.bez)
    IN  [program |-> IF q.width # None THEN <<Num(q.width[1])>> \o program ELSE program]

\* OutlineCompiler.getCharStringForGlyph, line 82:
\*   width = glyph.width == defaultWidth and None or glyph.width - nominalWidth
\* None is falsy, so "and None or z" yields z
WidthOperand(glyphWidth, priv) ==
    AndOr(glyphWidth = priv.defaultWidthX, None, FALSE,
          Some(glyphWidth - priv.nominalWidthX))

---------------------------------------------------------------------------
(* One call of getCharStringForGlyph, the pen driven by path.draw(pen) *)

PenWidths == {0, 450, 500}
DefaultWidths == {0, 500}
NominalWidths == {0, 400}
\* points handed to the pen, in 1/Scale units
PenPoints == {<<0, 0>>, <<6, 401>>}

InitGenIdle ==
    /\ pc = "idle"
    /\ version = <<>>
    /\ font = [glyphs |-> <<>>, glyphOrder |-> <<>>, features |-> <<>>,
               lib |-> {}, info |-> None]
    /\ otf = None
    /\ output = None
    /\ error = ""
    /\ log = <<>>

InitPen ==
    /\ penpc = "new"
    /\ penGlyph \in [name : {<<"A", 0>>}, width : PenWidths]
    /\ private \in [defaultWidthX : DefaultWidths, nominalWidthX : NominalWidths]
    /\ pen = None
    /\ open = FALSE
    /\ charString = None
    /\ InitGenIdle

\* getCharStringForGlyph, lines 80-85: the width operand and the new pen
NewPen ==
    /\ penpc = "new"
    /\ pen' = Some(HintPen(WidthOperand(penGlyph.width, private), penGlyph.name))
    /\ penpc' = "draw"
    /\ UNCHANGED <<penGlyph, private, open, charString>>
    /\ UNCHANGED genVars

CanDraw == penpc = "draw" /\ Len(pen[1].bez) < MaxOps + 2

\* BasePen.moveTo
MoveTo ==
    /\ CanDraw /\ ~open
    /\ \E pt \in PenPoints : pen' = Some(MoveToPen(pen[1], pt))
    /\ open' = TRUE
    /\ UNCHANGED <<penpc, penGlyph, private, charString>>
    /\ UNCHANGED genVars

\* BasePen.lineTo
LineTo ==
    /\ CanDraw /\ open
    /\ \E pt \in PenPoints : pen' = Some(LineToPen(pen[1], pt))
    /\ UNCHANGED <<penpc, penGlyph, private, open, charString>>
    /\ UNCHANGED genVars

\* BasePen.curveTo with three points
CurveTo ==
    /\ CanDraw /\ open
    /\ \E pt \in PenPoints :
          pen' = Some(CurveToOnePen(pen[1], <<0, 0>>, pt, <<6, 401>>))
    /\ UNCHANGED <<penpc, penGlyph, private, open, charString>>
    /\ UNCHANGED genVars

\* BasePen.closePath
ClosePath ==
    /\ CanDraw /\ open
    /\ pen' = Some(ClosePathPen(pen[1]))
    /\ open' = FALSE
    /\ UNCHANGED <<penpc, penGlyph, private, charString>>
    /\ UNCHANGED genVars

\* BasePen.endPath
EndPath ==
    /\ CanDraw /\ open
    /\ pen' = Some(EndPathPen(pen[1]))
    /\ open' = FALSE
    /\ UNCHANGED <<penpc, penGlyph, private, charString>>
    /\ UNCHANGED genVars

\* HintPen.getCharString, called when path.draw(pen) has returned; the
\* hinting engine accepts the program or raises
GetCharString ==
    /\ penpc = "draw" /\ ~open
    /\ pen' = Some(FinishPen(pen[1]))
    /\ \E accepted \in BOOLEAN :
          IF accepted
          THEN /\ charString' = Some(getCharString(pen[1]))
               /\ penpc' = "done"
          ELSE /\ charString' = None
               /\ penpc' = "failed"
    /\ UNCHANGED <<penGlyph, private, open>>
    /\ UNCHANGED genVars

NextPen ==
    \/ NewPen
    \/ MoveTo
    \/ LineTo
    \/ CurveTo
    \/ ClosePath
    \/ EndPath
    \/ GetCharString

SpecPen == InitPen /\ [][NextPen]_vars

---------------------------------------------------------------------------
(* The font model: glyphs, outlines, metadata *)

\* program constants of tools/build.py
minwidth == 50
MarkClass == 3
HalfOverhang == 25
MathVersion == 65536
MinorScale == 10

\* a closed rectangular contour, coordinates in 1/Scale units
Rect(xMin, yMin, xMax, yMax) ==
    [points |-> <<<<xMin, yMin>>, <<xMin, yMax>>, <<xMax, yMax>>, <<xMax, yMin>>>>,
     closed |-> TRUE]

\* glyph.lib.get(MATH_KEY) of a glyph that declares nothing
NoMath ==
    [IsExtendedShape |-> FALSE,
     ItalicCorrection |-> None,
     TopAccentHorizontal |-> None,
     GlyphVariantsVertical |-> None,
     GlyphCompositionVertical |-> None,
     GlyphVariantsHorizontal |-> None,
     GlyphCompositionHorizontal |-> None]

\* truthiness of a glyph's math dictionary: it has at least one key
MathTruthy(math) ==
    \/ math.IsExtendedShape
    \/ math.ItalicCorrection # None
    \/ math.TopAccentHorizontal # None
    \/ math.GlyphVariantsVertical # None
    \/ math.GlyphCompositionVertical # None
    \/ math.GlyphVariantsHorizontal # None
    \/ math.GlyphCompositionHorizontal # None

Glyph(name, width, class, unicode, contours, math) ==
    [name |-> name, width |-> width, class |-> class, unicode |-> unicode,
     contours |-> contours, math |-> math]

\* the names of the font's glyphs, in the order "for glyph in font" visits them
Names(f) == [i \in DOMAIN f.glyphs |-> f.glyphs[i].name]

\* name in font
InFont(f, name) == \E i \in DOMAIN f.glyphs : f.glyphs[i].name = name

\* font[name]
GlyphOf(f, name) == f.glyphs[CHOOSE i \in DOMAIN f.glyphs : f.glyphs[i].name = name]

SetMin(S) == CHOOSE x \in S : \A y \in S : x <= y
SetMax(S) == CHOOSE x \in S : \A y \in S : x >= y

\* glyph.getBounds(font) of a glyph with an outline made of straight
\* segments: (xMin, yMin, xMax, yMax), not rounded
getBounds(g) ==
    LET pts == UNION {Range(g.contours[c].points) : c \in DOMAIN g.contours}
        xs == {p[1] : p \in pts}
        ys == {p[2] : p \in pts}
    IN  <<SetMin(xs), SetMin(ys), SetMax(xs), SetMax(ys)>>

RECURSIVE SortInts(_)
\* sorted(S) for a set of integers
SortInts(S) ==
    IF S = {} THEN <<>> ELSE <<SetMin(S)>> \o SortInts(S \ {SetMin(S)})

---------------------------------------------------------------------------
(* Font._update_metadata *)

\* a field of version.split("."): digits (with their value) or not
Field(n) == [num |-> TRUE, val |-> n]
NotANumber == [num |-> FALSE, val |-> 0]

\* a variant that checks the field count and forgets that int() raises
UpdateMetadataFailsCountOnly(v) == Len(v) # 2

\* "major, minor = version.split('.')" and int() raise unless there are
\* exactly two fields, both integers
UpdateMetadataFails(v) ==
    \/ Len(v) # 2
    \/ \E i \in DOMAIN v : ~v[i].num

\* info.versionMajor, info.versionMinor = int(major), int(minor) * 10
UpdateMetadataInfo(v) ==
    [versionMajor |-> v[1].val, versionMinor |-> v[2].val * MinorScale]

---------------------------------------------------------------------------
(* Font._make_over_under_line and Font._draw_over_under_line *)

BaseNames == <<<<"uni0305", 0>>, <<"uni0332", 0>>>>

\* bases = [n for n in ("uni0305", "uni0332") if n in font]
Bases(f) == SelectSeq(BaseNames, LAMBDA n : InFont(f, n))

\* the glyphs the width loop considers: not marks, positive advance width
Counts(g) == g.class # "mark" /\ g.width > 0

\* a variant that rounds down: (glyph.width // minwidth) * minwidth
BucketFloor(w) ==
    LET width == (w \div minwidth) * minwidth
    IN  IF width > minwidth THEN width ELSE minwidth

\* width = max(round(glyph.width / minwidth) * minwidth, minwidth)
Bucket(w) ==
    LET width == RoundDiv(w, minwidth) * minwidth
    IN  IF width > minwidth THEN width ELSE minwidth

\* the keys of the widths dictionary
WidthKeys(f) == {Bucket(f.glyphs[i].width) : i \in {j \in DOMAIN f.glyphs : Counts(f.glyphs[j])}}

\* widths[width]: the names of the bucket's glyphs, in font order
WidthMembers(f, width) ==
    LET sel == SelectSeq(f.glyphs, LAMBDA g : Counts(g) /\ Bucket(g.width) = width)
    IN  [i \in DOMAIN sel |-> sel[i].name]

\* f"{name}.{width}"
VariantName(name, width) == <<name[1], width>>

\* the glyph _draw_over_under_line creates for one width
OverUnderGlyph(f, name, width) ==
    LET bbox == getBounds(GlyphOf(f, name))
        pos == bbox[2]
        height == bbox[4] - bbox[2]
        left == (0 - HalfOverhang - width) * Scale
        right == HalfOverhang * Scale
    IN  Glyph(VariantName(name, width), 0, "mark", FALSE,
              <<[points |-> <<<<left, pos>>, <<left, pos + height>>,
                              <<right, pos + height>>, <<right, pos>>>>,
                 closed |-> TRUE]>>,
              NoMath)

\* _draw_over_under_line(name, widths): one new glyph per width, ascending
DrawOverUnderLine(f, name, widthKeys) ==
    LET ws == SortInts(widthKeys)
    IN  [f EXCEPT !.glyphs = @ \o [i \in DOMAIN ws |-> OverUnderGlyph(f, name, ws[i])]]

RECURSIVE DrawAll(_, _, _)
\* for name in bases: self._draw_over_under_line(name, widths)
DrawAll(f, bases, widthKeys) ==
    IF bases = <<>> THEN f
    ELSE DrawAll(DrawOverUnderLine(f, Head(bases), widthKeys), Tail(bases), widthKeys)

FeaLine(kind, members, bases, by) ==
    [kind |-> kind, members |-> members, bases |-> bases, by |-> by]

\* "sub [members] [bases]' by [replacements];" for one width
SubRule(f, bases, width) ==
    FeaLine("sub", WidthMembers(f, width), bases,
            [i \in DOMAIN bases |-> VariantName(bases[i], width)])

\* the lines of the "feature mark { ... } mark;" block
OverUnderFea(f, bases, widthKeys) ==
    LET ws == SortInts(widthKeys)
    IN  <<FeaLine("feature mark {", <<>>, <<>>, <<>>),
          FeaLine("@OverSet", <<>>, bases, <<>>),
          FeaLine("lookupflag UseMarkFilteringSet @OverSet", <<>>, <<>>, <<>>)>>
        \o [i \in DOMAIN ws |-> SubRule(f, bases, ws[i])]
        \o <<FeaLine("} mark;", <<>>, <<>>, <<>>)>>

\* a variant that skips only when there is no bucket at all
SkipsSynthesisWhenEmpty(widthKeys) == Cardinality(widthKeys) = 0

\* if len(widths) == 1: return
SkipsSynthesis(widthKeys) == Cardinality(widthKeys) = 1

\* Font._make_over_under_line: the font it leaves behind
MakeOverUnderLineFont(f) ==
    LET bases == Bases(f)
        widthKeys == WidthKeys(f)
    IN  IF bases = <<>> THEN f
        ELSE IF SkipsSynthesis(widthKeys) THEN f
        ELSE [DrawAll(f, bases, widthKeys) EXCEPT
                !.features = @ \o OverUnderFea(f, bases, widthKeys)]

---------------------------------------------------------------------------
(* OutlineCompiler.getCharStringForGlyph on a glyph of the font *)

\* path.simplify(fix_winding=True, keep_starting_points=True) works on the
\* filled area, so every contour it returns is closed; the fonts modelled
\* here have flat, non-overlapping outlines, which it leaves as they are
Simplify(contours) == [c \in DOMAIN contours |-> [contours[c] EXCEPT !.closed = TRUE]]

RECURSIVE DrawLines(_, _)
DrawLines(p, pts) ==
    IF pts = <<>> THEN p ELSE DrawLines(LineToPen(p, Head(pts)), Tail(pts))

\* one contour of path.draw(pen): moveTo, lineTo..., closePath or endPath
DrawContour(p, c) ==
    IF c.points = <<>> THEN p
    ELSE LET q == DrawLines(MoveToPen(p, Head(c.points)), Tail(c.points))
         IN  IF c.closed THEN ClosePathPen(q) ELSE EndPathPen(q)

RECURSIVE PathDraw(_, _)
PathDraw(p, contours) ==
    IF contours = <<>> THEN p
    ELSE PathDraw(DrawContour(p, Head(contours)), Tail(contours))

\* OutlineCompiler.getCharStringForGlyph when the hinting engine accepts
getCharStringForGlyph(g, priv) ==
    LET path == IF Len(g.contours) > 0 THEN Simplify(g.contours) ELSE g.contours
        width == WidthOperand(g.width, priv)
    IN  getCharString(PathDraw(HintPen(width, g.name), path))

NotDef == <<".notdef", 0>>

\* the glyph ufo2ft adds when the font has no .notdef
NotDefGlyph == Glyph(NotDef, 500, "", FALSE, <<Rect(50 * Scale, 0, 450 * Scale, 700 * Scale)>>, NoMath)

\* compiler.compile(): a charstring per glyph, no layout tables yet
Compile(f, priv) ==
    LET all == IF InFont(f, NotDef) THEN f.glyphs ELSE <<NotDefGlyph>> \o f.glyphs
    IN  [glyphs |-> Range([i \in DOMAIN all |-> all[i].name]),
         cmap |-> {all[i].name : i \in {j \in DOMAIN all : all[j].unicode}},
         charStrings |-> [n \in Range([i \in DOMAIN all |-> all[i].name]) |->
                            getCharStringForGlyph(
                                all[CHOOSE i \in DOMAIN all : all[i].name = n], priv)],
         classDefs |-> <<>>,
         MATH |-> None,
         features |-> <<>>]

\* the classes feature compilation may put in GDEF: 0 stands for no entry
GdefClasses == {0, 1, 2, 3}

\* addOpenTypeFeaturesFromString(otf, features.text): the substitution rules
\* become lookups, and GDEF gets the glyph classes the compiler infers
AddFeatures(o, f, class) ==
    [o EXCEPT !.features = SelectSeq(f.features, LAMBDA l : l.kind = "sub"),
              !.classDefs = IF class = 0 THEN <<>> ELSE [n \in o.glyphs |-> class]]

---------------------------------------------------------------------------
(* Font._post_process: GDEF mark classes *)

\* the glyphs of the font tagged "mark"
MarkNames(f) == {f.glyphs[i].name : i \in {j \in DOMAIN f.glyphs : f.glyphs[j].class = "mark"}}

\* a variant that forgets the test of the glyph's class
SetMarkClassesAll(classdef, f) ==
    [n \in (DOMAIN classdef) \cup Range(Names(f)) |-> MarkClass]

\* for glyph in font: if class == "mark": classdef[glyph.name] = 3
SetMarkClasses(classdef, f) ==
    [n \in (DOMAIN classdef) \cup MarkNames(f) |->
        IF n \in MarkNames(f) THEN MarkClass ELSE classdef[n]]

---------------------------------------------------------------------------
(* Font._post_process: the MATH table *)

\* constants whose value is stored bare, not in a MathValueRecord
BareConstants ==
    {"ScriptPercentScaleDown", "ScriptScriptPercentScaleDown",
     "DelimitedSubFormulaMinHeight", "DisplayOperatorMinHeight",
     "RadicalDegreeBottomRaisePercent"}

\* table.MathConstants: every constant but MinConnectorOverlap
MathConstants(constants) ==
    {[name |-> c[1], value |-> c[2], record |-> c[1] \notin BareConstants] :
        c \in {d \in constants : d[1] # "MinConnectorOverlap"}}

\* a variant that numbers the glyphs in the order the font iterates them
glyphMapFontOrder(f) ==
    [n \in Range(Names(f)) |->
        SetMax({i \in DOMAIN f.glyphs : f.glyphs[i].name = n}) - 1]

\* glyphMap = {n: i for i, n in enumerate(font.glyphOrder)}
glyphMap(f) ==
    [n \in Range(f.glyphOrder) |->
        SetMax({i \in DOMAIN f.glyphOrder : f.glyphOrder[i] = n}) - 1]

RECURSIVE SortByID(_, _)
\* sorted(glyphs, key=glyphMap.__getitem__)
SortByID(glyphs, gm) ==
    IF glyphs = {} THEN <<>>
    ELSE LET first == CHOOSE n \in glyphs : \A m \in glyphs : gm[n] <= gm[m]
         IN  <<first>> \o SortByID(glyphs \ {first}, gm)

\* a variant that returns an empty coverage table for no glyphs
buildCoverageNeverNone(glyphs, gm) == Some([glyphs |-> SortByID(glyphs, gm)])

\* otl.buildCoverage(glyphs, glyphMap): None when there are no glyphs
buildCoverage(glyphs, gm) ==
    IF glyphs = {} THEN None ELSE Some([glyphs |-> SortByID(glyphs, gm)])

\* for glyph in font: math = glyph.lib.get(MATH_KEY); if math:
MathOf(f) == {j \in DOMAIN f.glyphs : MathTruthy(f.glyphs[j].math)}

\* the names of the glyphs at the places J of the font
NamesAt(f, J) == {f.glyphs[j].name : j \in J}

extended(f) == NamesAt(f, {j \in MathOf(f) : f.glyphs[j].math.IsExtendedShape})
italic(f) == NamesAt(f, {j \in MathOf(f) : f.glyphs[j].math.ItalicCorrection # None})
accent(f) == NamesAt(f, {j \in MathOf(f) : f.glyphs[j].math.TopAccentHorizontal # None})
vvars(f) == NamesAt(f, {j \in MathOf(f) : f.glyphs[j].math.GlyphVariantsVertical # None})
hvars(f) == NamesAt(f, {j \in MathOf(f) : f.glyphs[j].math.GlyphVariantsHorizontal # None})
\* the composition is read only under the variants key of the same axis
vcomp(f) == NamesAt(f, {j \in MathOf(f) :
                /\ f.glyphs[j].math.GlyphVariantsVertical # None
                /\ f.glyphs[j].math.GlyphCompositionVertical # None})
hcomp(f) == NamesAt(f, {j \in MathOf(f) :
                /\ f.glyphs[j].math.GlyphVariantsHorizontal # None
                /\ f.glyphs[j].math.GlyphCompositionHorizontal # None})

\* a variant that rounds the height to the nearest integer
VertAdvanceMeasurementRounded(bbox) == RoundDiv(bbox[4] - bbox[2], Scale) + 1

\* record.AdvanceMeasurement = int(bbox[-1] - bbox[1] + 1)
VertAdvanceMeasurement(bbox) == TruncDiv(bbox[4] - bbox[2] + Scale, Scale)

\* record.AdvanceMeasurement = int(bbox[-2] - bbox[0] + 1)
HorizAdvanceMeasurement(bbox) == TruncDiv(bbox[3] - bbox[1] + Scale, Scale)

\* one MathGlyphVariantRecord
VariantRecord(f, variant, vertical) ==
    LET bbox == getBounds(GlyphOf(f, variant))
    IN  [VariantGlyph |-> variant,
         AdvanceMeasurement |-> IF vertical THEN VertAdvanceMeasurement(bbox)
                                ELSE HorizAdvanceMeasurement(bbox)]

\* "f, s, e, a = [int(v) for v in comp[1].split(',')]" raises unless the
\* string has exactly four fields
PartFails(comp) == Len(comp.fields) # 4

\* one GlyphPartRecord
PartRecord(comp) ==
    [glyph |-> comp.glyph,
     PartFlags |-> comp.fields[1],
     StartConnectorLength |-> comp.fields[2],
     EndConnectorLength |-> comp.fields[3],
     FullAdvance |-> comp.fields[4]]

\* one MathGlyphConstruction
Construction(records, comps) ==
    [VariantCount |-> Len(records),
     MathGlyphVariantRecord |-> records,
     GlyphAssembly |->
        IF comps = None THEN None
        ELSE Some([ItalicsCorrection |-> 0,
                   PartRecords |-> [i \in DOMAIN comps[1] |-> PartRecord(comps[1][i])]])]

VertConstruction(f, name) ==
    LET m == GlyphOf(f, name).math
        variants == m.GlyphVariantsVertical[1]
    IN  Construction([i \in DOMAIN variants |-> VariantRecord(f, variants[i], TRUE)],
                     IF name \in vcomp(f) THEN m.GlyphCompositionVertical ELSE None)

HorizConstruction(f, name) ==
    LET m == GlyphOf(f, name).math
        variants == m.GlyphVariantsHorizontal[1]
    IN  Construction([i \in DOMAIN variants |-> VariantRecord(f, variants[i], FALSE)],
                     IF name \in hcomp(f) THEN m.GlyphCompositionHorizontal ELSE None)

\* constants["MinConnectorOverlap"]
HasMinConnectorOverlap(constants) == \E c \in constants : c[1] = "MinConnectorOverlap"
MinConnectorOverlap(constants) ==
    (CHOOSE c \in constants : c[1] = "MinConnectorOverlap")[2]

\* coverage.glyphs raises on the None buildCoverage returns for no glyphs
\* (the extended-shape coverage is stored, never read)
CoverageFails(f, gm) ==
    \/ buildCoverage(italic(f), gm) = None
    \/ buildCoverage(accent(f), gm) = None
    \/ buildCoverage(vvars(f), gm) = None
    \/ buildCoverage(hvars(f), gm) = None

\* the MATH block of _post_process raises
MathFails(f) ==
    \/ CoverageFails(f, glyphMap(f))
    \/ ~HasMinConnectorOverlap(f.lib)
    \/ \E n \in vcomp(f) :
          \E i \in DOMAIN GlyphOf(f, n).math.GlyphCompositionVertical[1] :
             PartFails(GlyphOf(f, n).math.GlyphCompositionVertical[1][i])
    \/ \E n \in hcomp(f) :
          \E i \in DOMAIN GlyphOf(f, n).math.GlyphCompositionHorizontal[1] :
             PartFails(GlyphOf(f, n).math.GlyphCompositionHorizontal[1][i])

\* the MATH table _post_process builds when nothing raises
MathTable(f) ==
    LET gm == glyphMap(f)
        icov == buildCoverage(italic(f), gm)
        acov == buildCoverage(accent(f), gm)
        vcov == buildCoverage(vvars(f), gm)
        hcov == buildCoverage(hvars(f), gm)
    IN  [Version |-> MathVersion,
         MathConstants |-> MathConstants(f.lib),
         ItalicsCoverage |-> icov,
         ItalicsCorrection |->
            [i \in DOMAIN icov[1].glyphs |->
                [Value |-> GlyphOf(f, icov[1].glyphs[i]).math.ItalicCorrection[1]]],
         TopAccentCoverage |-> acov,
         TopAccentAttachment |->
            [i \in DOMAIN acov[1].glyphs |->
                [Value |-> GlyphOf(f, acov[1].glyphs[i]).math.TopAccentHorizontal[1]]],
         ExtendedShapeCoverage |-> buildCoverage(extended(f), gm),
         MinConnectorOverlap |-> MinConnectorOverlap(f.lib),
         VertGlyphCoverage |-> vcov,
         VertGlyphConstruction |->
            [i \in DOMAIN vcov[1].glyphs |-> VertConstruction(f, vcov[1].glyphs[i])],
         HorizGlyphCoverage |-> hcov,
         HorizGlyphConstruction |->
            [i \in DOMAIN hcov[1].glyphs |-> HorizConstruction(f, hcov[1].glyphs[i])]]

\* constants = font.lib.get(MATH_KEY); if constants:
BuildsMath(f) == f.lib # {}

---------------------------------------------------------------------------
(* Font._prune *)

\* the variant and part glyphs a construction refers to
ConstructionGlyphs(c) ==
    {c.MathGlyphVariantRecord[i].VariantGlyph : i \in DOMAIN c.MathGlyphVariantRecord}
    \cup (IF c.GlyphAssembly = None THEN {}
          ELSE {c.GlyphAssembly[1].PartRecords[i].glyph :
                  i \in DOMAIN c.GlyphAssembly[1].PartRecords})

\* glyphs one closure step adds to the kept set R: the replacement of a
\* kept base after a kept context glyph, the variants and parts of a kept
\* glyph's constructions
Reached(o, R) ==
    LET bySub ==
            UNION {{o.features[r].by[b] :
                      b \in {k \in DOMAIN o.features[r].bases :
                               /\ o.features[r].bases[k] \in R
                               /\ Range(o.features[r].members) \cap R # {}}} :
                   r \in DOMAIN o.features}
        byMath ==
            IF o.MATH = None THEN {}
            ELSE LET t == o.MATH[1]
                 IN  UNION {ConstructionGlyphs(t.VertGlyphConstruction[i]) :
                              i \in {k \in DOMAIN t.VertGlyphConstruction :
                                       t.VertGlyphCoverage[1].glyphs[k] \in R}}
                     \cup
                     UNION {ConstructionGlyphs(t.HorizGlyphConstruction[i]) :
                              i \in {k \in DOMAIN t.HorizGlyphConstruction :
                                       t.HorizGlyphCoverage[1].glyphs[k] \in R}}
    IN  (bySub \cup byMath) \cap o.glyphs

RECURSIVE Closure(_, _)
Closure(o, R) ==
    IF Reached(o, R) \subseteq R THEN R ELSE Closure(o, R \cup Reached(o, R))

RECURSIVE KeepCovered(_, _, _)
\* the entries of a coverage-indexed array whose glyph is kept
KeepCovered(arr, cov, R) ==
    IF arr = <<>> THEN <<>>
    ELSE (IF Head(cov) \in R THEN <<Head(arr)>> ELSE <<>>)
         \o KeepCovered(Tail(arr), Tail(cov), R)

PruneCoverage(cov, R) ==
    IF cov = None THEN None
    ELSE LET kept == SelectSeq(cov[1].glyphs, LAMBDA n : n \in R)
         IN  IF kept = <<>> THEN None ELSE Some([glyphs |-> kept])

PruneMath(t, R) ==
    [t EXCEPT
       !.ItalicsCoverage = PruneCoverage(@, R),
       !.ItalicsCorrection = KeepCovered(@, t.ItalicsCoverage[1].glyphs, R),
       !.TopAccentCoverage = PruneCoverage(@, R),
       !.TopAccentAttachment = KeepCovered(@, t.TopAccentCoverage[1].glyphs, R),
       !.ExtendedShapeCoverage = PruneCoverage(@, R),
       !.VertGlyphCoverage = PruneCoverage(@, R),
       !.VertGlyphConstruction = KeepCovered(@, t.VertGlyphCoverage[1].glyphs, R),
       !.HorizGlyphCoverage = PruneCoverage(@, R),
       !.HorizGlyphConstruction = KeepCovered(@, t.HorizGlyphCoverage[1].glyphs, R)]

\* Font._prune: the font restricted to the glyphs reachable from the
\* character map, .notdef kept, layout features kept
Prune(o) ==
    LET R == Closure(o, (o.cmap \cup {NotDef}) \cap o.glyphs)
    IN  [o EXCEPT
           !.glyphs = R,
           !.charStrings = [n \in R |-> o.charStrings[n]],
           !.classDefs = [n \in (DOMAIN o.classDefs) \cap R |-> o.classDefs[n]],
           !.MATH = IF o.MATH = None THEN None ELSE Some(PruneMath(o.MATH[1], R))]

---------------------------------------------------------------------------
(* Font.generate: one action per statement *)

\* a variant that compiles the outlines before synthesizing the glyphs
NextStageCompileFirst(stage) ==
    CASE stage = "update_metadata" -> "compile"
      [] stage = "compile" -> "make_over_under_line"
      [] stage = "make_over_under_line" -> "add_features"
      [] stage = "add_features" -> "post_process"
      [] stage = "post_process" -> "prune"
      [] stage = "prune" -> "save"
      [] OTHER -> "done"

\* the statement Font.generate runs after each of its statements
NextStage(stage) ==
    CASE stage = "update_metadata" -> "make_over_under_line"
      [] stage = "make_over_under_line" -> "compile"
      [] stage = "compile" -> "add_features"
      [] stage = "add_features" -> "post_process"
      [] stage = "post_process" -> "prune"
      [] stage = "prune" -> "save"
      [] OTHER -> "done"

\* what _post_process does, in order: the mark classes first, the MATH
\* table after them when the font has math constants
PostProcessStages(f) ==
    <<"mark_classes">> \o (IF BuildsMath(f) THEN <<"math_table">> ELSE <<>>)

\* an exception leaves generate: nothing after the statement runs
Raise(stage) ==
    /\ pc' = "failed"
    /\ error' = stage

\* self._update_metadata()
UpdateMetadata ==
    /\ pc = "update_metadata"
    /\ log' = Append(log, "update_metadata")
    /\ IF UpdateMetadataFails(version)
       THEN Raise("update_metadata") /\ UNCHANGED font
       ELSE /\ font' = [font EXCEPT !.info = Some(UpdateMetadataInfo(version))]
            /\ pc' = NextStage(pc)
            /\ UNCHANGED error
    /\ UNCHANGED <<version, otf, output>>
    /\ UNCHANGED penVars

\* self._make_over_under_line()
MakeOverUnderLine ==
    /\ pc = "make_over_under_line"
    /\ log' = Append(log, "make_over_under_line")
    /\ font' = MakeOverUnderLineFont(font)
    /\ pc' = NextStage(pc)
    /\ UNCHANGED <<version, otf, output, error>>
    /\ UNCHANGED penVars

\* compiler = OutlineCompiler(self._font); otf = compiler.compile()
\* the hinting engine accepts every glyph, or raises on one of them
CompileOutlines ==
    /\ pc = "compile"
    /\ log' = Append(log, "compile")
    /\ \E accepted \in BOOLEAN :
          IF accepted
          THEN /\ otf' = Some(Compile(font, private))
               /\ pc' = NextStage(pc)
               /\ UNCHANGED error
          ELSE Raise("compile") /\ UNCHANGED otf
    /\ UNCHANGED <<version, font, output>>
    /\ UNCHANGED penVars

\* addOpenTypeFeaturesFromString(otf, self._font.features.text)
CompileFeatures ==
    /\ pc = "add_features"
    /\ log' = Append(log, "add_features")
    /\ \E class \in GdefClasses : otf' = Some(AddFeatures(otf[1], font, class))
    /\ pc' = NextStage(pc)
    /\ UNCHANGED <<version, font, output, error>>
    /\ UNCHANGED penVars

\* self._post_process(otf)
PostProcess ==
    /\ pc = "post_process"
    /\ log' = log \o PostProcessStages(font)
    /\ LET marked == [otf[1] EXCEPT !.classDefs = SetMarkClasses(@, font)]
       IN  IF BuildsMath(font)
           THEN IF MathFails(font)
                THEN Raise("post_process") /\ otf' = Some(marked)
                ELSE /\ otf' = Some([marked EXCEPT !.MATH = Some(MathTable(font))])
                     /\ pc' = NextStage(pc)
                     /\ UNCHANGED error
           ELSE /\ otf' = Some(marked)
                /\ pc' = NextStage(pc)
                /\ UNCHANGED error
    /\ UNCHANGED <<version, font, output>>
    /\ UNCHANGED penVars

\* otf = self._prune(otf)
PruneFont ==
    /\ pc = "prune"
    /\ log' = Append(log, "prune")
    /\ otf' = Some(Prune(otf[1]))
    /\ pc' = NextStage(pc)
    /\ UNCHANGED <<version, font, output, error>>
    /\ UNCHANGED penVars

\* otf.save(output)
Save ==
    /\ pc = "save"
    /\ log' = Append(log, "save")
    /\ output' = otf
    /\ pc' = NextStage(pc)
    /\ UNCHANGED <<version, font, otf, error>>
    /\ UNCHANGED penVars

Next ==
    \/ UpdateMetadata
    \/ MakeOverUnderLine
    \/ CompileOutlines
    \/ CompileFeatures
    \/ PostProcess
    \/ PruneFont
    \/ Save

---------------------------------------------------------------------------
(* The fonts the runs start from *)

OrdinaryName(i) == <<"g", i>>

\* the glyph after glyph i, cyclically
Succ(i) == (i % NGlyphs) + 1

\* a flat outline with non-integer extents
Outline(i) == <<Rect(0, 0 - (i * Scale) - 1, ((400 + i) * Scale) + 2, (700 * Scale) + 3)>>

Overline == Glyph(<<"uni0305", 0>>, 0, "mark", TRUE,
                  <<Rect(0 - (500 * Scale), (620 * Scale) + 2, 0, 660 * Scale)>>, NoMath)
Underline == Glyph(<<"uni0332", 0>>, 0, "mark", TRUE,
                   <<Rect(0 - (500 * Scale), 0 - (100 * Scale), 0, 0 - (60 * Scale))>>, NoMath)
\* an underline that is a spacing glyph, not a mark
SpacingUnderline == [Underline EXCEPT !.class = "", !.width = 480]

MathLibFull == {<<"MinConnectorOverlap", 20>>, <<"AxisHeight", 250>>,
                <<"ScriptPercentScaleDown", 80>>}
MathLibNoOverlap == {<<"AxisHeight", 250>>}

ValidVersion == <<Field(7), Field(2)>>

MkFont(glyphs, order, lib) ==
    [glyphs |-> glyphs, glyphOrder |-> order, features |-> <<>>, lib |-> lib,
     info |-> None]

NamesOf(glyphs) == [i \in DOMAIN glyphs |-> glyphs[i].name]

\* every order of the names
Orders(names) ==
    {o \in [DOMAIN names -> Range(names)] : \A i, j \in DOMAIN names : o[i] = o[j] => i = j}

InitPenIdle ==
    /\ penpc = "idle"
    /\ penGlyph = [name |-> NoName, width |-> 0]
    /\ private = [defaultWidthX |-> 500, nominalWidthX |-> 400]
    /\ pen = None
    /\ open = FALSE
    /\ charString = None

InitRun(versions, fonts) ==
    /\ pc = "update_metadata"
    /\ version \in versions
    /\ font \in fonts
    /\ otf = None
    /\ output = None
    /\ error = ""
    /\ log = <<>>
    /\ InitPenIdle

\* ---- fonts for the over/underline synthesis ----

WidthTemplate(width, class, unicode) == [width |-> width, class |-> class, unicode |-> unicode]

WidthTemplates ==
    {WidthTemplate(0, "", TRUE), WidthTemplate(20, "", TRUE), WidthTemplate(480, "", TRUE),
     WidthTemplate(510, "", TRUE), WidthTemplate(525, "", FALSE),
     WidthTemplate(1000, "", TRUE), WidthTemplate(480, "mark", FALSE)}

BaseChoices ==
    {<<>>, <<Overline>>, <<Underline>>, <<Overline, Underline>>, <<SpacingUnderline>>}

WidthFonts ==
    {LET glyphs == [i \in 1..NGlyphs |->
                       Glyph(OrdinaryName(i), ts[i].width, ts[i].class, ts[i].unicode,
                             Outline(i), NoMath)] \o bases
     IN  MkFont(glyphs, NamesOf(glyphs), {}) :
        ts \in [1..NGlyphs -> WidthTemplates], bases \in BaseChoices}

InitOverUnder == InitRun({ValidVersion}, WidthFonts)

SpecOverUnder == InitOverUnder /\ [][Next]_vars

\* ---- fonts for the MATH table ----

GoodPart(i) == [glyph |-> OrdinaryName(Succ(i)), fields |-> <<1, 30, 30, 100 + i>>]
BadPart(i) == [glyph |-> OrdinaryName(i), fields |-> <<0, 5, 5>>]

MathItalic(i) ==
    [NoMath EXCEPT !.IsExtendedShape = TRUE,
                   !.ItalicCorrection = Some(10 + i),
                   !.TopAccentHorizontal = Some(200 + i)]
MathFull(i) ==
    [NoMath EXCEPT !.ItalicCorrection = Some(10 + i),
                   !.TopAccentHorizontal = Some(200 + i),
                   !.GlyphVariantsVertical = Some(<<OrdinaryName(i), OrdinaryName(Succ(i))>>),
                   !.GlyphCompositionVertical = Some(<<GoodPart(i)>>),
                   !.GlyphVariantsHorizontal = Some(<<OrdinaryName(Succ(i))>>)]
MathBadPart(i) ==
    [NoMath EXCEPT !.GlyphVariantsVertical = Some(<<OrdinaryName(i)>>),
                   !.GlyphCompositionVertical = Some(<<GoodPart(i), BadPart(i)>>),
                   !.GlyphVariantsHorizontal = Some(<<OrdinaryName(Succ(i)), OrdinaryName(i)>>),
                   !.GlyphCompositionHorizontal = Some(<<GoodPart(i)>>)]
\* a composition without the variants of its axis is never read
MathUnreadPart(i) ==
    [NoMath EXCEPT !.ItalicCorrection = Some(10 + i),
                   !.GlyphCompositionVertical = Some(<<BadPart(i)>>),
                   !.GlyphVariantsHorizontal = Some(<<OrdinaryName(i)>>)]

MathTemplates(i) == {NoMath, MathItalic(i), MathFull(i), MathBadPart(i), MathUnreadPart(i)}

MathGlyphs ==
    {[i \in 1..NGlyphs |-> Glyph(OrdinaryName(i), 500, "", i # NGlyphs, Outline(i), ms[i])] :
        ms \in {m \in [1..NGlyphs -> UNION {MathTemplates(i) : i \in 1..NGlyphs}] :
                  \A i \in 1..NGlyphs : m[i] \in MathTemplates(i)}}

MathFonts ==
    {MkFont(glyphs, order, lib) :
        glyphs \in MathGlyphs,
        order \in Orders([i \in 1..NGlyphs |-> OrdinaryName(i)]),
        lib \in {{}, MathLibFull}}

InitMath == InitRun({ValidVersion}, MathFonts)

SpecMath == InitMath /\ [][Next]_vars

\* ---- fonts for the advance measurements: one variant glyph, every box ----

Boxes ==
    {<<x, y, x + dx, y + dy>> :
        x \in {0 - 3, 0}, y \in {0, 2}, dx \in 0..MaxExtent, dy \in 0..MaxExtent}

AdvanceFonts ==
    {LET glyphs == [i \in 1..NGlyphs |->
                       IF i = 1
                       THEN Glyph(OrdinaryName(1), 500, "", TRUE, Outline(1),
                                  [NoMath EXCEPT
                                     !.ItalicCorrection = Some(11),
                                     !.TopAccentHorizontal = Some(201),
                                     !.GlyphVariantsVertical = Some(<<OrdinaryName(2)>>),
                                     !.GlyphVariantsHorizontal = Some(<<OrdinaryName(2)>>)])
                       ELSE IF i = 2
                       THEN Glyph(OrdinaryName(2), 500, "", FALSE,
                                  <<Rect(b[1], b[2], b[3], b[4])>>, NoMath)
                       ELSE Glyph(OrdinaryName(i), 500, "", TRUE, Outline(i), NoMath)]
     IN  MkFont(glyphs, NamesOf(glyphs), MathLibFull) :
        b \in Boxes}

InitAdvance == InitRun({ValidVersion}, AdvanceFonts)

SpecAdvance == InitAdvance /\ [][Next]_vars

\* ---- every kind of run: versions that parse or not, fonts with or ----
\* ---- without bases, math constants and malformed assembly parts   ----

Versions ==
    {ValidVersion, <<Field(7)>>, <<Field(7), Field(2), Field(1)>>, <<NotANumber, Field(2)>>}

RunTemplates(i) ==
    {[width |-> 480, math |-> NoMath],
     [width |-> 1000, math |-> MathFull(i)],
     [width |-> 500, math |-> MathBadPart(i)]}

RunFonts ==
    {LET glyphs == [i \in 1..NGlyphs |->
                       Glyph(OrdinaryName(i), ts[i].width, "", i # NGlyphs, Outline(i),
                             ts[i].math)] \o bases
     IN  MkFont(glyphs, NamesOf(glyphs), lib) :
        ts \in {t \in [1..NGlyphs -> UNION {RunTemplates(i) : i \in 1..NGlyphs}] :
                  \A i \in 1..NGlyphs : t[i] \in RunTemplates(i)},
        bases \in {<<>>, <<Overline, Underline>>},
        lib \in {{}, MathLibFull, MathLibNoOverlap}}

Init == InitRun(Versions, RunFonts)

Spec == Init /\ [][Next]_vars

---------------------------------------------------------------------------
(* Claims about charstrings *)

\* the number of end-of-path markers in a bez program
EdCount(bez) == Cardinality({i \in DOMAIN bez : bez[i].op = "ed"})

\* C10: the intermediate program getCharString passes to the hinting engine
\* contains the end-of-path marker "ed" exactly once, as its last instruction.
C10_EdOnceAndLast ==
    penpc \in {"done", "failed"} =>
        /\ EdCount(pen[1].bez) = 1
        /\ Last(pen[1].bez).op = "ed"

\* C1: a glyph whose advance width equals defaultWidthX gets a charstring
\* with no leading width operand; any other glyph's program begins with
\* advance - nominalWidthX.
C1_WidthOperand ==
    penpc = "done" =>
        LET program == charString[1].program
            body == convertBezToT2(pen[1].bez)
        IN  IF penGlyph.width = private.defaultWidthX
            THEN program = body
            ELSE /\ program = <<Num(penGlyph.width - private.nominalWidthX)>> \o body
                 /\ Head(program) = Num(penGlyph.width - private.nominalWidthX)

---------------------------------------------------------------------------
(* Claims about Font.generate *)

\* the places of a stage in the log
Places(stage) == {i \in DOMAIN log : log[i] = stage}

\* stage b starts only after stage a has run
After(a, b) == \A j \in Places(b) : \E i \in Places(a) : i < j

\* no start of stage b precedes a start of stage a
Ordered(a, b) == \A i \in Places(a), j \in Places(b) : i < j

\* a version string of the form int.int
VersionIsIntDotInt(v) == Len(v) = 2 /\ v[1].num /\ v[2].num

\* the table builder runs and reads an assembly part whose field count is not 4
ReadsMalformedPart(f) ==
    /\ f.lib # {}
    /\ \E i \in DOMAIN f.glyphs :
          LET m == f.glyphs[i].math
          IN  \/ /\ m.GlyphVariantsVertical # None
                 /\ m.GlyphCompositionVertical # None
                 /\ \E k \in DOMAIN m.GlyphCompositionVertical[1] :
                       Len(m.GlyphCompositionVertical[1][k].fields) # 4
              \/ /\ m.GlyphVariantsHorizontal # None
                 /\ m.GlyphCompositionHorizontal # None
                 /\ \E k \in DOMAIN m.GlyphCompositionHorizontal[1] :
                       Len(m.GlyphCompositionHorizontal[1][k].fields) # 4

StagesBeforeSave ==
    {"update_metadata", "make_over_under_line", "compile", "add_features",
     "mark_classes", "prune"}

\* C2: the output file is written only after metadata update, glyph
\* synthesis, outline compilation, feature compilation, post-processing and
\* pruning have all completed without error; when a stage fails (a version
\* that is not int.int, an assembly part without 4 fields, a rejected
\* glyph) the run has aborted and nothing is written.
C2_NoPartialOutput ==
    /\ output # None =>
          /\ pc = "done"
          /\ error = ""
          /\ StagesBeforeSave \subseteq Range(log)
          /\ \A st \in StagesBeforeSave : Ordered(st, "save")
          /\ VersionIsIntDotInt(version)
          /\ ~ReadsMalformedPart(font)
    /\ error # "" => pc = "failed" /\ output = None
    /\ pc = "failed" => output = None

\* a run aborted in _post_process by a malformed assembly part, after the
\* outlines and the features were compiled
C2_Witness ==
    /\ pc = "failed"
    /\ error = "post_process"
    /\ ReadsMalformedPart(font)
    /\ {"compile", "add_features"} \subseteq Range(log)
    /\ output = None

\* C9 as stated: 4.3, 4.4 and 4.5 each start only after the per-glyph work
\* of 4.1-4.2 has completed, and the three run in the order 4.3, 4.4, 4.5.
C9_GlobalStagesAfterCompile ==
    /\ After("compile", "make_over_under_line")
    /\ After("compile", "math_table")
    /\ After("compile", "mark_classes")
    /\ After("compile", "prune")
    /\ Ordered("make_over_under_line", "math_table")
    /\ Ordered("math_table", "mark_classes")
    /\ Ordered("math_table", "prune")

\* C9 as amended: 4.3 runs before the per-glyph work of 4.1-4.2; 4.4 and
\* 4.5 start only after that work has completed; the mark-class correction
\* of 4.5 runs before 4.4 and the pruning of 4.5 after it.
C9_StageOrder ==
    /\ \A i, j \in DOMAIN log : log[i] = log[j] => i = j
    /\ After("make_over_under_line", "compile")
    /\ After("compile", "mark_classes")
    /\ After("compile", "math_table")
    /\ After("compile", "prune")
    /\ After("mark_classes", "math_table")
    /\ After("mark_classes", "prune")
    /\ Ordered("math_table", "prune")

\* a complete run that built the MATH table
C9_Witness ==
    /\ pc = "done"
    /\ "math_table" \in Range(log)
    /\ "make_over_under_line" \in Range(log)

---------------------------------------------------------------------------
(* Claims about the MATH table *)

\* the glyph ID of a name: its place in the font's glyph order
GlyphID(f, n) == (CHOOSE i \in DOMAIN f.glyphOrder : f.glyphOrder[i] = n) - 1

\* the place of a name in the order the glyphs' metadata is collected in
CollectedAt(f, n) == CHOOSE i \in DOMAIN f.glyphs : f.glyphs[i].name = n

CoverageGlyphs(c) == IF c = None THEN <<>> ELSE c[1].glyphs

StrictlyIncreasing(cov) ==
    \A i, j \in DOMAIN cov : i < j => GlyphID(font, cov[i]) < GlyphID(font, cov[j])

VariantGlyphs(construction) ==
    [i \in DOMAIN construction.MathGlyphVariantRecord |->
        construction.MathGlyphVariantRecord[i].VariantGlyph]

\* the glyphs whose metadata has a key
DeclaredItalic == {font.glyphs[i].name : i \in {j \in DOMAIN font.glyphs :
                     font.glyphs[j].math.ItalicCorrection # None}}
DeclaredAccent == {font.glyphs[i].name : i \in {j \in DOMAIN font.glyphs :
                     font.glyphs[j].math.TopAccentHorizontal # None}}
DeclaredExtended == {font.glyphs[i].name : i \in {j \in DOMAIN font.glyphs :
                     font.glyphs[j].math.IsExtendedShape}}
DeclaredVertical == {font.glyphs[i].name : i \in {j \in DOMAIN font.glyphs :
                     font.glyphs[j].math.GlyphVariantsVertical # None}}
DeclaredHorizontal == {font.glyphs[i].name : i \in {j \in DOMAIN font.glyphs :
                     font.glyphs[j].math.GlyphVariantsHorizontal # None}}

MathAttached == otf # None /\ otf[1].MATH # None

\* C3: every coverage table of the MATH table lists its glyphs without
\* duplicates in strictly increasing glyph-ID order, whatever order the
\* metadata was collected in, and the i-th value record and the i-th glyph
\* construction belong to the i-th glyph of the coverage table.
C3_CoverageByGlyphID ==
    MathAttached =>
        LET t == otf[1].MATH[1]
            icov == CoverageGlyphs(t.ItalicsCoverage)
            acov == CoverageGlyphs(t.TopAccentCoverage)
            ecov == CoverageGlyphs(t.ExtendedShapeCoverage)
            vcov == CoverageGlyphs(t.VertGlyphCoverage)
            hcov == CoverageGlyphs(t.HorizGlyphCoverage)
        IN  /\ \A cov \in {icov, acov, ecov, vcov, hcov} : StrictlyIncreasing(cov)
            /\ pc = "prune" =>
                  /\ Range(icov) = DeclaredItalic
                  /\ Range(acov) = DeclaredAccent
                  /\ Range(ecov) = DeclaredExtended
                  /\ Range(vcov) = DeclaredVertical
                  /\ Range(hcov) = DeclaredHorizontal
            /\ Len(t.ItalicsCorrection) = Len(icov)
            /\ \A i \in DOMAIN icov :
                  t.ItalicsCorrection[i].Value
                     = GlyphOf(font, icov[i]).math.ItalicCorrection[1]
            /\ Len(t.TopAccentAttachment) = Len(acov)
            /\ \A i \in DOMAIN acov :
                  t.TopAccentAttachment[i].Value
                     = GlyphOf(font, acov[i]).math.TopAccentHorizontal[1]
            /\ Len(t.VertGlyphConstruction) = Len(vcov)
            /\ \A i \in DOMAIN vcov :
                  VariantGlyphs(t.VertGlyphConstruction[i])
                     = GlyphOf(font, vcov[i]).math.GlyphVariantsVertical[1]
            /\ Len(t.HorizGlyphConstruction) = Len(hcov)
            /\ \A i \in DOMAIN hcov :
                  VariantGlyphs(t.HorizGlyphConstruction[i])
                     = GlyphOf(font, hcov[i]).math.GlyphVariantsHorizontal[1]

\* a table just built whose italic-correction coverage holds two glyphs
\* that were collected in the opposite order of their glyph IDs
C3_Witness ==
    /\ pc = "prune"
    /\ MathAttached
    /\ LET icov == CoverageGlyphs(otf[1].MATH[1].ItalicsCoverage)
       IN  \E i, j \in DOMAIN icov :
              i < j /\ CollectedAt(font, icov[i]) > CollectedAt(font, icov[j])

\* a glyph of the font declares mathematical metadata
SomeGlyphDeclaresMath == \E i \in DOMAIN font.glyphs : MathTruthy(font.glyphs[i].math)

\* C5: when no glyph declares mathematical metadata no MATH table is
\* attached to the compiled font; one is attached only when a glyph does.
C5_MathOnlyWithGlyphData ==
    /\ MathAttached => SomeGlyphDeclaresMath
    /\ (output # None /\ output[1].MATH # None) => SomeGlyphDeclaresMath

\* _post_process has run on a font with math constants none of whose
\* glyphs declares metadata, and has attached nothing
C5_Witness ==
    /\ "mark_classes" \in Range(log)
    /\ font.lib # {}
    /\ ~SomeGlyphDeclaresMath
    /\ ~MathAttached

\* the variant records of the table along one axis, each with the extent
\* of its variant glyph's bounding box along that axis, in 1/Scale units
MeasuredVariants(vertical) ==
    LET t == otf[1].MATH[1]
        cs == IF vertical THEN t.VertGlyphConstruction ELSE t.HorizGlyphConstruction
    IN  UNION {{[am |-> cs[i].MathGlyphVariantRecord[k].AdvanceMeasurement,
                 extent |->
                    LET b == getBounds(GlyphOf(font, cs[i].MathGlyphVariantRecord[k].VariantGlyph))
                    IN  IF vertical THEN b[4] - b[2] ELSE b[3] - b[1]] :
                  k \in DOMAIN cs[i].MathGlyphVariantRecord} :
               i \in DOMAIN cs}

AllMeasuredVariants == MeasuredVariants(TRUE) \cup MeasuredVariants(FALSE)

\* C4 as stated: AdvanceMeasurement is round(yMax - yMin) + 1 for a vertical
\* construction and round(xMax - xMin) + 1 for a horizontal one, for all
\* bounding boxes, those with non-integer extents included.
C4_RoundedExtentPlusOne ==
    MathAttached =>
        \A r \in AllMeasuredVariants : r.am = RoundDiv(r.extent, Scale) + 1

\* C4 as amended: AdvanceMeasurement is int(extent + 1), the extent
\* rounded down plus 1, which is round(extent) + 1 when the extent is an
\* integer.
C4_TruncatedExtentPlusOne ==
    MathAttached =>
        \A r \in AllMeasuredVariants :
            /\ r.am = (r.extent \div Scale) + 1
            /\ r.extent % Scale = 0 => r.am = RoundDiv(r.extent, Scale) + 1

\* a table with a vertical variant whose height is not an integer and
\* rounds up
C4_Witness ==
    /\ MathAttached
    /\ \E r \in MeasuredVariants(TRUE) :
          /\ r.extent % Scale # 0
          /\ RoundDiv(r.extent, Scale) > r.extent \div Scale

---------------------------------------------------------------------------
(* Claims about the over/underline synthesis and the mark classes *)

PresentBases(f) == {b \in {<<"uni0305", 0>>, <<"uni0332", 0>>} : InFont(f, b)}

\* max(round(width / 50) * 50, 50)
BucketOf(width) ==
    LET r == RoundDiv(width, 50) * 50 IN IF r >= 50 THEN r ELSE 50

\* the non-mark glyphs with positive advance width
Spacing(f) == {i \in DOMAIN f.glyphs : f.glyphs[i].class # "mark" /\ f.glyphs[i].width > 0}

BucketKeys(f) == {BucketOf(f.glyphs[i].width) : i \in Spacing(f)}

BucketGlyphs(f, W) ==
    {f.glyphs[i].name : i \in {j \in Spacing(f) : BucketOf(f.glyphs[j].width) = W}}

Named(f, n) == {i \in DOMAIN f.glyphs : f.glyphs[i].name = n}

\* what _make_over_under_line has added to font f in font g
Synthesized(f, g) ==
    LET added == SubSeq(g.glyphs, Len(f.glyphs) + 1, Len(g.glyphs))
        fea == SubSeq(g.features, Len(f.features) + 1, Len(g.features))
        subs == SelectSeq(fea, LAMBDA l : l.kind = "sub")
    IN  /\ Len(g.glyphs) >= Len(f.glyphs)
        /\ SubSeq(g.glyphs, 1, Len(f.glyphs)) = f.glyphs
        /\ SubSeq(g.features, 1, Len(f.features)) = f.features
        /\ \A W \in BucketKeys(f), B \in PresentBases(f) :
              /\ Cardinality(Named(g, <<B[1], W>>)) = 1
              /\ Named(f, <<B[1], W>>) = {}
              /\ \A i \in Named(g, <<B[1], W>>) :
                    g.glyphs[i].width = 0 /\ g.glyphs[i].class = "mark"
        /\ Len(added) = Cardinality(BucketKeys(f)) * Cardinality(PresentBases(f))
        /\ \A i \in DOMAIN added : added[i].name[2] \in BucketKeys(f)
        /\ Len(subs) = Cardinality(BucketKeys(f))
        /\ \A W \in BucketKeys(f) :
              /\ Cardinality({i \in DOMAIN subs :
                                Range(subs[i].members) = BucketGlyphs(f, W)}) = 1
              /\ \A i \in DOMAIN subs :
                    Range(subs[i].members) = BucketGlyphs(f, W) =>
                       /\ Range(subs[i].by) = {<<B[1], W>> : B \in PresentBases(f)}
                       /\ Range(subs[i].bases) = PresentBases(f)
                       /\ \A k \in DOMAIN subs[i].by :
                             subs[i].by[k] = <<subs[i].bases[k][1], W>>

C7_OneBucketNoSynthesis ==
    [][(/\ pc = "make_over_under_line"
        /\ Cardinality(BucketKeys(font)) = 1)
       => /\ font'.glyphs = font.glyphs
          /\ font'.features = font.features]_vars

\* the synthesis has run on a font with both bases and one bucket, and
\* left it without variants or rules
C7_Witness ==
    /\ "make_over_under_line" \in Range(log)
    /\ PresentBases(font) = {<<"uni0305", 0>>, <<"uni0332", 0>>}
    /\ Cardinality(BucketKeys(font)) = 1
    /\ font.features = <<>>
    /\ \A i \in DOMAIN font.glyphs : font.glyphs[i].name[2] < 50

\* C8: after _post_process every glyph tagged mark, the synthesized
\* variants included, has class 3 in the GDEF class table whatever class
\* compilation gave it, and the entries of the other glyphs are unchanged.
C8_MarkClassesOverridden ==
    [][pc = "post_process"
       => LET before == otf[1].classDefs
              after == otf'[1].classDefs
          IN  /\ \A n \in MarkNames(font) : n \in DOMAIN after /\ after[n] = 3
              /\ \A n \in (DOMAIN before \cup DOMAIN after) \ MarkNames(font) :
                    /\ n \in DOMAIN before
                    /\ n \in DOMAIN after
                    /\ after[n] = before[n]]_vars

\* _post_process has run: a synthesized variant that compilation had put
\* in class 1 is in class 3, and a glyph that is no mark is still in class 1
C8_Witness ==
    /\ pc = "prune"
    /\ InFont(font, <<"uni0305", 500>>)
    /\ otf[1].classDefs[<<"uni0305", 500>>] = 3
    /\ \E n \in DOMAIN otf[1].classDefs : n \notin MarkNames(font) /\ otf[1].classDefs[n] = 1

====
